---- MODULE Spec2Model ----
(***************************************************************************)
(* update_assembly.py: parse_phase reads the FALCON-Phase table into two   *)
(* haplotype lists; write_assembly copies a Juicebox assembly file line by *)
(* line, renaming the contig of every line that holds the '>' marker when  *)
(* its name is not in the haplotype list; main calls parse_phase once and  *)
(* write_assembly twice.                                                   *)
(*                                                                         *)
(* A text is a sequence of characters; a character is a one-letter string, *)
(* with "nl" for the line feed and "sp" for the blank.  A file is a text,  *)
(* a path is the text of a file name inside the assembly's directory.      *)
(***************************************************************************)
EXTENDS Integers, Sequences, FiniteSets, TLC

VARIABLES
    pc,         \* position of the run: start, parse, parsed, call, write, returned, done, failed
    fs,         \* the directory: path -> text of the file
    open,       \* the file objects that are open and not yet closed
    arguments,  \* the parsed command line: assembly, phase, sequence_length
    maternal,   \* main's / parse_phase's list of the first haplotype
    paternal,   \* main's / parse_phase's list of the second haplotype
    filename,   \* write_assembly's parameter
    output,     \* write_assembly's parameter
    length,     \* write_assembly's parameter
    haplotype,  \* write_assembly's parameter
    lines,      \* the lines the input file of the running for-loop yields
    pos,        \* number of those lines the loop has consumed
    emitted,    \* the strings the current write_assembly call has written, in order
    calls,      \* the calls main has made so far, with their arguments
    err         \* the exception that ended the run, or "none"

vars == <<pc, fs, open, arguments, maternal, paternal, filename, output, length,
          haplotype, lines, pos, emitted, calls, err>>

-----------------------------------------------------------------------------
(* Bounds of the model.                                                    *)

MaxFileLen == 5        \* characters of an assembly file given to write_assembly alone
MaxLength == 1         \* largest --sequence-length
MaxHap == 2            \* names in a haplotype list given to write_assembly alone
MaxPhaseLines == 2     \* lines of the phase file

NumFields == 3         \* split[0], split[1], split[2]: the fields a phase line needs

-----------------------------------------------------------------------------
(* Characters and texts.                                                   *)

NL == "nl"
SP == "sp"
Marker == ">"
Whitespace == {NL, SP}
BodyChars == {Marker, "0", "1"}

Min(a, b) == IF a < b THEN a ELSE b
Max(a, b) == IF a < b THEN b ELSE a

SeqsUpTo(S, n) == UNION {[1..k -> S] : k \in 0..n}

\* Python s[a:b] for 0 <= a and 0 <= b: the characters at 0-based a .. b-1,
\* cut at the end of s.
Slice(s, a, b) ==
    IF a >= Min(b, Len(s)) THEN <<>> ELSE SubSeq(s, a + 1, Min(b, Len(s)))

\* Python s[a:].
SliceFrom(s, a) == Slice(s, a, Len(s))

\* Iterating a text file: every line keeps its line feed; only the last line
\* may lack one.
RECURSIVE SplitLines(_)
SplitLines(s) ==
    IF s = <<>> THEN <<>>
    ELSE LET ends == {i \in 1..Len(s) : s[i] = NL}
             k == IF ends = {} THEN Len(s)
                  ELSE CHOOSE i \in ends : \A j \in ends : i <= j
         IN  <<SubSeq(s, 1, k)>> \o SplitLines(SliceFrom(s, k))

\* str.strip(): leading and trailing whitespace removed.
RECURSIVE Strip(_)
Strip(s) ==
    IF s = <<>> THEN s
    ELSE IF s[1] \in Whitespace THEN Strip(Tail(s))
    ELSE IF s[Len(s)] \in Whitespace THEN Strip(SubSeq(s, 1, Len(s) - 1))
    ELSE s

\* str.split(): the maximal runs of non-whitespace characters, in order.
RECURSIVE Split(_)
Split(s) ==
    IF s = <<>> THEN <<>>
    ELSE IF s[1] \in Whitespace THEN Split(Tail(s))
    ELSE LET stops == {i \in 1..Len(s) : s[i] \in Whitespace}
             k == IF stops = {} THEN Len(s) + 1
                  ELSE CHOOSE i \in stops : \A j \in stops : i <= j
         IN  <<SubSeq(s, 1, k - 1)>> \o Split(SliceFrom(s, k - 1))

\* Python `x in list`.
In(x, list) == \E i \in DOMAIN list : list[i] = x

-----------------------------------------------------------------------------
(* write_assembly, one line.                                               *)

\* The marker looked for at the start of the line only.
MutHasMarkerPrefix(line) == Len(line) >= 1 /\ line[1] = Marker

\* '>' in line
HasMarker(line) == \E i \in 1..Len(line) : line[i] = Marker

\* name = line[1:1+length]
NameOf(line, n) == Slice(line, 1, 1 + n)

\* The suffix taken one character early.
MutSuffixEarly(line, n) == SliceFrom(line, n)

\* suffix = line[1+length:]
SuffixOf(line, n) == SliceFrom(line, 1 + n)

\* The name put back without the swap of its last character.
MutRenamedKeep(name) == <<Marker>> \o name

\* name[-1] == '0' ? '>{0}1'.format(name[:-1]) : '>{0}0'.format(name[:-1]),
\* for a name that has a last character.
Renamed(name) ==
    IF name[Len(name)] = "0"
    THEN <<Marker>> \o SubSeq(name, 1, Len(name) - 1) \o <<"1">>
    ELSE <<Marker>> \o SubSeq(name, 1, Len(name) - 1) \o <<"0">>

\* name[-1] of the empty string raises IndexError; it is evaluated only for
\* a marked line whose name is not in the haplotype list.
LineRaises(line, n, hap) ==
    /\ HasMarker(line)
    /\ ~In(NameOf(line, n), hap)
    /\ NameOf(line, n) = <<>>

\* A line whose name is in the list rebuilt from marker, name and suffix
\* instead of written as read.
MutOutLineRebuild(line, n, hap) ==
    IF HasMarker(line)
    THEN IF In(NameOf(line, n), hap)
         THEN <<Marker>> \o NameOf(line, n) \o SuffixOf(line, n)
         ELSE Renamed(NameOf(line, n)) \o SuffixOf(line, n)
    ELSE line

\* What the loop body writes for a line that does not raise.
OutLine(line, n, hap) ==
    IF HasMarker(line)
    THEN IF In(NameOf(line, n), hap)
         THEN line
         ELSE Renamed(NameOf(line, n)) \o SuffixOf(line, n)
    ELSE line

\* open(path, 'w'): the file is created, or emptied when it exists.
Truncated(files, path) ==
    [p \in DOMAIN files \cup {path} |-> IF p = path THEN <<>> ELSE files[p]]

\* outfile.write(text)
Written(files, path, text) == [files EXCEPT ![path] = @ \o text]

\* The text one whole loop writes for the lines ls, up to a line that raises.
RECURSIVE WrittenText(_, _, _)
WrittenText(ls, n, hap) ==
    IF ls = <<>> THEN <<>>
    ELSE IF LineRaises(ls[1], n, hap) THEN <<>>
    ELSE OutLine(ls[1], n, hap) \o WrittenText(Tail(ls), n, hap)

-----------------------------------------------------------------------------
(* write_assembly, the call.                                               *)

\* infile = open(filename); outfile = open(output, 'w').  The reader fills
\* its buffer at the first iteration, after the output has been emptied.
WriteOpen ==
    /\ pc = "call"
    /\ open' = open \cup {"infile", "outfile"}
    /\ fs' = Truncated(fs, output)
    /\ lines' = SplitLines(fs'[filename])
    /\ pos' = 0
    /\ emitted' = <<>>
    /\ pc' = "write"
    /\ UNCHANGED <<arguments, maternal, paternal, filename, output, length,
                   haplotype, calls, err>>

\* One iteration of the loop that writes.
WriteLine ==
    /\ pc = "write"
    /\ pos < Len(lines)
    /\ ~LineRaises(lines[pos + 1], length, haplotype)
    /\ fs' = Written(fs, output, OutLine(lines[pos + 1], length, haplotype))
    /\ emitted' = Append(emitted, OutLine(lines[pos + 1], length, haplotype))
    /\ pos' = pos + 1
    /\ UNCHANGED <<pc, open, arguments, maternal, paternal, filename, output,
                   length, haplotype, lines, calls, err>>

\* One iteration that raises: the exception leaves write_assembly and main;
\* nothing closes infile or outfile.
WriteLineRaise ==
    /\ pc = "write"
    /\ pos < Len(lines)
    /\ LineRaises(lines[pos + 1], length, haplotype)
    /\ pc' = "failed"
    /\ err' = "IndexError"
    /\ UNCHANGED <<fs, open, arguments, maternal, paternal, filename, output,
                   length, haplotype, lines, pos, emitted, calls>>

\* The loop is over: infile.close(); outfile.close(); return.
WriteClose ==
    /\ pc = "write"
    /\ pos = Len(lines)
    /\ open' = open \ {"infile", "outfile"}
    /\ pc' = "returned"
    /\ UNCHANGED <<fs, arguments, maternal, paternal, filename, output, length,
                   haplotype, lines, pos, emitted, calls, err>>

-----------------------------------------------------------------------------
(* parse_phase.                                                            *)

\* split = line.strip().split()
Fields(line) == Split(Strip(line))

\* with open(filename) as infile: the loop starts.
ParsePhaseOpen ==
    /\ pc = "start"
    /\ calls' = Append(calls, [fn |-> "parse_phase", filename |-> arguments.phase,
                               output |-> <<>>, length |-> 0, haplotype |-> <<>>])
    /\ maternal' = <<>>
    /\ paternal' = <<>>
    /\ open' = open \cup {"phase"}
    /\ lines' = SplitLines(fs[arguments.phase])
    /\ pos' = 0
    /\ pc' = "parse"
    /\ UNCHANGED <<fs, arguments, filename, output, length, haplotype, emitted, err>>

\* One iteration: maternal.append(split[1]); paternal.append(split[2]).
ParsePhaseLine ==
    /\ pc = "parse"
    /\ pos < Len(lines)
    /\ Len(Fields(lines[pos + 1])) >= NumFields
    /\ maternal' = Append(maternal, Fields(lines[pos + 1])[2])
    /\ paternal' = Append(paternal, Fields(lines[pos + 1])[3])
    /\ pos' = pos + 1
    /\ UNCHANGED <<pc, fs, open, arguments, filename, output, length, haplotype,
                   lines, emitted, calls, err>>

\* A line with too few fields skipped instead of raising.
MutParsePhaseSkip ==
    /\ pc = "parse"
    /\ pos < Len(lines)
    /\ Len(Fields(lines[pos + 1])) < NumFields
    /\ pos' = pos + 1
    /\ UNCHANGED <<pc, fs, open, arguments, maternal, paternal, filename, output,
                   length, haplotype, lines, emitted, calls, err>>

\* One iteration on a line with too few fields: split[1] or split[2] raises
\* IndexError (after maternal.append when there are two fields); the with
\* statement closes the file as the exception leaves.
ParsePhaseRaise ==
    /\ pc = "parse"
    /\ pos < Len(lines)
    /\ Len(Fields(lines[pos + 1])) < NumFields
    /\ maternal' = IF Len(Fields(lines[pos + 1])) >= 2
                   THEN Append(maternal, Fields(lines[pos + 1])[2])
                   ELSE maternal
    /\ open' = open \ {"phase"}
    /\ pc' = "failed"
    /\ err' = "IndexError"
    /\ UNCHANGED <<fs, arguments, paternal, filename, output, length, haplotype,
                   lines, pos, emitted, calls>>

\* The loop is over: the with statement closes the file; return.
ParsePhaseReturn ==
    /\ pc = "parse"
    /\ pos = Len(lines)
    /\ open' = open \ {"phase"}
    /\ pc' = "parsed"
    /\ UNCHANGED <<fs, arguments, maternal, paternal, filename, output, length,
                   haplotype, lines, pos, emitted, calls, err>>

-----------------------------------------------------------------------------
(* main.                                                                   *)

\* The output written over the assembly itself.
MutOutPathSame(digit, base) == base

\* os.path.join(split[0], '0-{0}'.format(split[1])): the file named digit,
\* '-', basename in the directory of the assembly.
OutPath(digit, base) == <<digit, "-">> \o base

CallRecord(digit, hap) ==
    [fn |-> "write_assembly", filename |-> arguments.assembly,
     output |-> OutPath(digit, arguments.assembly),
     length |-> arguments.sequence_length, haplotype |-> hap]

Call(digit, hap) ==
    /\ filename' = arguments.assembly
    /\ output' = OutPath(digit, arguments.assembly)
    /\ length' = arguments.sequence_length
    /\ haplotype' = hap
    /\ calls' = Append(calls, CallRecord(digit, hap))
    /\ pc' = "call"
    /\ UNCHANGED <<fs, open, arguments, maternal, paternal, lines, pos, emitted, err>>

\* The first write_assembly call, after parse_phase returned.
MainCallFirst ==
    /\ pc = "parsed"
    /\ Call("0", maternal)

\* The second write_assembly call, after the first returned.
MainCallSecond ==
    /\ pc = "returned"
    /\ Len(calls) = 2
    /\ Call("1", paternal)

\* main returns after the second call.
MainDone ==
    /\ pc = "returned"
    /\ Len(calls) = 3
    /\ pc' = "done"
    /\ UNCHANGED <<fs, open, arguments, maternal, paternal, filename, output,
                   length, haplotype, lines, pos, emitted, calls, err>>

-----------------------------------------------------------------------------
(* The inputs.                                                             *)

PhasePath == <<"p">>
AsmPath == <<"a">>

\* Assembly files for write_assembly alone: every text up to MaxFileLen.
AsmFiles == SeqsUpTo(BodyChars \cup {NL}, MaxFileLen)

\* Names of n characters with a haplotype digit last (one character for n = 0:
\* parse_phase never yields an empty name).
Names(n) == [1..Max(n, 1) -> {"0", "1"}]

RECURSIVE NameRank(_)
NameRank(name) ==
    IF name = <<>> THEN 0
    ELSE 2 * NameRank(SubSeq(name, 1, Len(name) - 1))
         + (IF name[Len(name)] = "1" THEN 1 ELSE 0)

\* Haplotype lists for write_assembly alone: up to MaxHap different names.
Haplotypes(n) ==
    {h \in SeqsUpTo(Names(n), MaxHap) :
        \A i \in 1..Len(h) - 1 : NameRank(h[i]) < NameRank(h[i + 1])}

\* Phase files: up to MaxPhaseLines lines, each ended by a line feed.  A line
\* is blank, or holds a label and up to NumFields more blank-separated names:
\* one field too few, two too few, exactly enough, one more than is read.
PhaseLabel == <<"0">>
PhaseTokens == {<<"0">>, <<"1">>}

PhaseRecords ==
    {<<>>} \cup {<<PhaseLabel>> \o r : r \in SeqsUpTo(PhaseTokens, NumFields)}

RECURSIVE JoinFields(_)
JoinFields(fields) ==
    IF fields = <<>> THEN <<>>
    ELSE IF Len(fields) = 1 THEN fields[1]
    ELSE fields[1] \o <<SP>> \o JoinFields(Tail(fields))

RECURSIVE JoinLines(_)
JoinLines(records) ==
    IF records = <<>> THEN <<>>
    ELSE JoinFields(records[1]) \o <<NL>> \o JoinLines(Tail(records))

PhaseFiles == {JoinLines(r) : r \in SeqsUpTo(PhaseRecords, MaxPhaseLines)}

\* Assembly files for whole runs: empty, a lone marker, one contig, a contig
\* and an ordering line, two contigs of different digits, an unmarked line.
RunAssemblies ==
    { <<>>,
      <<Marker>>,
      <<Marker, "0", NL>>,
      <<Marker, "1", NL, "1", NL>>,
      <<Marker, "0", NL, Marker, "1", NL>>,
      <<"0", SP, "1", NL>> }

-----------------------------------------------------------------------------
(* The run of main.                                                        *)

Init ==
    /\ pc = "start"
    /\ \E p \in PhaseFiles, f \in RunAssemblies :
           fs = (PhasePath :> p) @@ (AsmPath :> f)
    /\ \E n \in 0..MaxLength :
           arguments = [assembly |-> AsmPath, phase |-> PhasePath, sequence_length |-> n]
    /\ open = {}
    /\ maternal = <<>>
    /\ paternal = <<>>
    /\ filename = <<>>
    /\ output = <<>>
    /\ length = 0
    /\ haplotype = <<>>
    /\ lines = <<>>
    /\ pos = 0
    /\ emitted = <<>>
    /\ calls = <<>>
    /\ err = "none"

Next ==
    \/ ParsePhaseOpen
    \/ ParsePhaseLine
    \/ ParsePhaseRaise
    \/ ParsePhaseReturn
    \/ MainCallFirst
    \/ WriteOpen
    \/ WriteLine
    \/ WriteLineRaise
    \/ WriteClose
    \/ MainCallSecond
    \/ MainDone

Spec == Init /\ [][Next]_vars

-----------------------------------------------------------------------------
(* One call of write_assembly on any assembly file.                        *)

InitWrite ==
    /\ pc = "call"
    /\ \E f \in AsmFiles : fs = (AsmPath :> f)
    /\ \E n \in 0..MaxLength :
           /\ length = n
           /\ arguments = [assembly |-> AsmPath, phase |-> PhasePath,
                           sequence_length |-> n]
           /\ haplotype \in Haplotypes(n)
    /\ filename = AsmPath
    /\ output = OutPath("0", AsmPath)
    /\ open = {}
    /\ maternal = haplotype
    /\ paternal = <<>>
    /\ lines = <<>>
    /\ pos = 0
    /\ emitted = <<>>
    /\ calls = <<>>
    /\ err = "none"

NextWrite ==
    \/ WriteOpen
    \/ WriteLine
    \/ WriteLineRaise
    \/ WriteClose

SpecWrite == InitWrite /\ [][NextWrite]_vars

-----------------------------------------------------------------------------
(* What the specification says of one line, written from its words and     *)
(* not from the operators above.                                           *)

\* The line holds the marker somewhere.
Marked(line) == Marker \in {line[k] : k \in 1..Len(line)}

\* The name field: the characters at 0-based 1 .. length of the line.
FieldOf(line) ==
    [k \in 1..Min(length, Len(line) - 1) |-> line[k + 1]]

\* What follows the name field.
RestOf(line) ==
    [k \in 1..(Len(line) - 1 - length) |-> line[k + 1 + length]]

\* The name with its last character replaced: '0' by '1', any other by '0'.
Toggled(name) ==
    [k \in 1..Len(name) |->
        IF k < Len(name) THEN name[k] ELSE IF name[k] = "0" THEN "1" ELSE "0"]

Member(name) == name \in {haplotype[k] : k \in 1..Len(haplotype)}

LastOf(name) == name[Len(name)]

\* The lines of the output file as a reader of that file sees them.
OutputLines == SplitLines(fs[output])

\* The lines that have been written so far, by their number.
Done == 1..Len(emitted)

-----------------------------------------------------------------------------
\* C1 (as stated), on the assemblies it is meant for (every marker first in
\* its line, every name of full width and ending in a digit, the haplotype
\* list holding each name or its toggled form): when write_assembly has
\* returned, the name fields of all contig-definition lines of the output end
\* in one and the same digit.
WellFormed ==
    \A i \in 1..Len(lines) :
        Marked(lines[i]) =>
            /\ lines[i][1] = Marker
            /\ length >= 1
            /\ Len(FieldOf(lines[i])) = length
            /\ LastOf(FieldOf(lines[i])) \in {"0", "1"}
            /\ (Member(FieldOf(lines[i])) \/ Member(Toggled(FieldOf(lines[i]))))

C1_UniformDigit ==
    (pc = "returned" /\ WellFormed) =>
        \E d \in {"0", "1"} :
            \A i \in Done :
                Marked(lines[i]) => LastOf(FieldOf(emitted[i])) = d

\* C1 (amended): the name field of every contig-definition line written is
\* the input name itself when that name is in the haplotype list, and the
\* input name with its last character toggled when it is not; so it is a
\* member of the list whenever the list holds the input name or its toggled
\* form.  Nothing makes the digits of one output equal.
C1_NameFollowsHaplotype ==
    \A i \in Done :
        Marked(lines[i]) =>
            /\ FieldOf(emitted[i]) =
                   IF Member(FieldOf(lines[i])) THEN FieldOf(lines[i])
                   ELSE Toggled(FieldOf(lines[i]))
            /\ (Member(FieldOf(lines[i])) \/ Member(Toggled(FieldOf(lines[i]))))
                   => Member(FieldOf(emitted[i]))

\* Two contig-definition lines of one finished output carry members of the
\* haplotype list that end in different digits.
C1_Witness ==
    /\ pc = "returned"
    /\ \E i, j \in Done :
           /\ Marked(lines[i]) /\ Marked(lines[j])
           /\ Member(FieldOf(emitted[i])) /\ Member(FieldOf(emitted[j]))
           /\ LastOf(FieldOf(emitted[i])) = "0"
           /\ LastOf(FieldOf(emitted[j])) = "1"
    /\ \E i \in Done :
           /\ Marked(lines[i])
           /\ ~Member(FieldOf(lines[i]))
           /\ Member(FieldOf(emitted[i]))

-----------------------------------------------------------------------------
\* C2 (as stated): when write_assembly has returned, every input line without
\* the marker stands unchanged, line feed included, at the same line number
\* of the output file.
C2_UnmarkedLinesKeepTheirPlace ==
    pc = "returned" =>
        \A i \in 1..Len(lines) :
            ~Marked(lines[i]) =>
                /\ i <= Len(OutputLines)
                /\ OutputLines[i] = lines[i]

-----------------------------------------------------------------------------
-----------------------------------------------------------------------------
\* C6: when write_assembly has returned and the name field of every marked
\* input line is in the haplotype list, the output file equals the input file
\* character for character, and rewriting that output with the same list
\* and width gives the same text again.
AllNamesInList == \A i \in 1..Len(lines) : Marked(lines[i]) => Member(FieldOf(lines[i]))

C6_Idempotent ==
    (pc = "returned" /\ AllNamesInList) =>
        /\ fs[output] = fs[filename]
        /\ WrittenText(SplitLines(fs[output]), length, haplotype) = fs[output]

\* A finished call on a file with a marked line, all of whose names are in
\* the list.
C6_Witness ==
    /\ pc = "returned"
    /\ AllNamesInList
    /\ \E i \in 1..Len(lines) : Marked(lines[i])
    /\ \E i \in 1..Len(lines) : Marked(lines[i]) /\ lines[i][1] # Marker

-----------------------------------------------------------------------------
\* C9 (as stated), on the assemblies whose markers all stand first in their
\* line: when write_assembly has returned, the output file has as many lines
\* as the input, and each output line equals its input line except possibly
\* in the one character at 0-based index `length` of a marked line.
MarkersLead == \A i \in 1..Len(lines) : Marked(lines[i]) => lines[i][1] = Marker

C9_SameStructure ==
    (pc = "returned" /\ MarkersLead) =>
        /\ Len(OutputLines) = Len(lines)
        /\ \A i \in 1..Len(lines) :
               /\ Len(OutputLines[i]) = Len(lines[i])
               /\ \A k \in 1..Len(lines[i]) :
                      OutputLines[i][k] # lines[i][k] =>
                          (Marked(lines[i]) /\ k = length + 1)

-----------------------------------------------------------------------------
\* C10: a line that holds the marker anywhere but in its first place is
\* treated as a contig definition: characters 1 .. length are its name, and
\* when that name is not in the haplotype list the line is written with '>'
\* first and the name toggled, so not as it was read; a line that holds no
\* marker at all is written as it was read.
C10_Containment ==
    \A i \in Done :
        /\ (Marked(lines[i]) /\ lines[i][1] # Marker /\ ~Member(FieldOf(lines[i]))) =>
               /\ emitted[i] # lines[i]
               /\ emitted[i][1] = Marker
               /\ FieldOf(emitted[i]) = Toggled(FieldOf(lines[i]))
        /\ (Marked(lines[i]) /\ lines[i][1] # Marker /\ Member(FieldOf(lines[i]))) =>
               emitted[i] = lines[i]
        /\ ~Marked(lines[i]) => emitted[i] = lines[i]

\* A line with the marker in a later place has been rewritten, and a line
\* without marker has been copied.
C10_Witness ==
    /\ \E i \in Done :
           /\ Marked(lines[i])
           /\ lines[i][1] # Marker
           /\ emitted[i] # lines[i]
    /\ \E i \in Done : ~Marked(lines[i])

-----------------------------------------------------------------------------
(* What the specification says of the phase file.                          *)

PhaseLines == SplitLines(fs[arguments.phase])

\* A field starts at every character that is not whitespace and follows
\* whitespace or starts the line.
FieldStarts(line) ==
    {k \in 1..Len(line) :
        line[k] \notin Whitespace /\ (k = 1 \/ line[k - 1] \in Whitespace)}

FieldCount(line) == Cardinality(FieldStarts(line))

\* The field that starts at k.
FieldAt(line, k) ==
    LET stop == CHOOSE e \in k..Len(line) :
                    /\ \A j \in k..e : line[j] \notin Whitespace
                    /\ (e = Len(line) \/ line[e + 1] \in Whitespace)
    IN  SubSeq(line, k, stop)

\* The field of 0-based index n of a line that has it.
Field(line, n) ==
    LET k == CHOOSE j \in FieldStarts(line) :
                 Cardinality({m \in FieldStarts(line) : m < j}) = n
    IN  FieldAt(line, k)

HasShortLine == \E i \in 1..Len(PhaseLines) : FieldCount(PhaseLines[i]) < 3

\* The fields of index n of the non-empty lines among ls, in order.
RECURSIVE Column(_, _)
Column(ls, n) ==
    IF ls = <<>> THEN <<>>
    ELSE IF FieldCount(ls[1]) = 0 THEN Column(Tail(ls), n)
    ELSE <<Field(ls[1], n)>> \o Column(Tail(ls), n)

FirstOutput == <<"0", "-">> \o arguments.assembly
SecondOutput == <<"1", "-">> \o arguments.assembly

-----------------------------------------------------------------------------
\* C4 (as stated): when a line of the phase file has fewer than 3 fields the
\* run never gets past parse_phase, it ends failed with the error
\* MalformedPhaseRecord, and neither output file is ever opened or created.
C4_AbortsMalformedPhaseRecord ==
    HasShortLine =>
        /\ pc \in {"start", "parse", "failed"}
        /\ pc = "failed" => err = "MalformedPhaseRecord"
        /\ FirstOutput \notin DOMAIN fs
        /\ SecondOutput \notin DOMAIN fs
        /\ open \subseteq {"phase"}

\* C4 (amended): when a line of the phase file has fewer than 3 fields the
\* run never gets past parse_phase, it ends failed with the IndexError of the
\* missing field (the code has no MalformedPhaseRecord), and neither output
\* file is ever opened or created.
C4_AbortsBeforeOutputs ==
    HasShortLine =>
        /\ pc \in {"start", "parse", "failed"}
        /\ pc = "failed" => (err = "IndexError" /\ Len(calls) = 1)
        /\ FirstOutput \notin DOMAIN fs
        /\ SecondOutput \notin DOMAIN fs
        /\ open \subseteq {"phase"}

\* The run has failed on a second line of two fields, after a first line
\* that was complete.
C4_Witness ==
    /\ pc = "failed"
    /\ pos = 1
    /\ Len(PhaseLines) = 2
    /\ FieldCount(PhaseLines[1]) >= 3
    /\ FieldCount(PhaseLines[2]) = 2

-----------------------------------------------------------------------------
\* C5 (as stated): on a phase file whose lines are empty or hold at least 3
\* fields, parse_phase does not fail, and when it has returned maternal holds
\* the fields of index 1 and paternal the fields of index 2 of the non-empty
\* lines, in the order of the file; empty lines add nothing.
NoShortNonEmptyLine ==
    \A i \in 1..Len(PhaseLines) :
        FieldCount(PhaseLines[i]) = 0 \/ FieldCount(PhaseLines[i]) >= 3

C5_EmptyLinesAddNothing ==
    NoShortNonEmptyLine =>
        /\ (pc = "failed" => Len(calls) > 1)
        /\ (pc \notin {"start", "parse", "failed"}) =>
               /\ maternal = Column(PhaseLines, 1)
               /\ paternal = Column(PhaseLines, 2)

-----------------------------------------------------------------------------
\* C7 (as stated): when the run has ended, done or failed, no file object is
\* left open.
C7_AllClosedAtExit == pc \in {"done", "failed"} => open = {}

-----------------------------------------------------------------------------
\* C8: a run that is done has called, in this order, parse_phase on the phase
\* file, write_assembly on the assembly into '0-' + basename with the
\* maternal list, and write_assembly on the assembly into '1-' + basename with
\* the paternal list, both with the configured length; the two output paths
\* differ from each other and from the assembly; no step changes the
\* assembly file, and once parse_phase has returned no step changes the two
\* lists.
ExpectedCalls ==
    << [fn |-> "parse_phase", filename |-> arguments.phase, output |-> <<>>,
        length |-> 0, haplotype |-> <<>>],
       [fn |-> "write_assembly", filename |-> arguments.assembly,
        output |-> FirstOutput, length |-> arguments.sequence_length,
        haplotype |-> Column(PhaseLines, 1)],
       [fn |-> "write_assembly", filename |-> arguments.assembly,
        output |-> SecondOutput, length |-> arguments.sequence_length,
        haplotype |-> Column(PhaseLines, 2)] >>

C8_CallOrder ==
    /\ [](pc = "done" =>
            /\ calls = ExpectedCalls
            /\ calls[2].haplotype = maternal
            /\ calls[3].haplotype = paternal
            /\ Cardinality({calls[2].filename, calls[2].output, calls[3].output}) = 3
            /\ {FirstOutput, SecondOutput} \subseteq DOMAIN fs)
    /\ [][/\ fs'[arguments.assembly] = fs[arguments.assembly]
          /\ pc \notin {"start", "parse"} =>
                 (maternal' = maternal /\ paternal' = paternal)]_vars

\* A run is done whose two lists differ and whose two outputs differ from
\* each other and from the assembly they were written from.
C8_Witness ==
    /\ pc = "done"
    /\ maternal # paternal
    /\ Len(maternal) = 2
    /\ fs[FirstOutput] # fs[SecondOutput]
    /\ fs[FirstOutput] # fs[arguments.assembly]

====
